---- MODULE Spec2Model ----
(***************************************************************************)
(* The command-line driver of tensorQTL, main() of tensorqtl/tensorqtl.py, *)
(* as a state machine.  One run of main() is one behaviour: the command    *)
(* line is fixed in the initial state, every block of main() is one        *)
(* action, and the contents of the files the run reads are inputs drawn    *)
(* at the action that reads them.  The routines main() calls (cis.map_cis, *)
(* trans.map_trans, ...) are recorded, with the arguments main() gives     *)
(* them, in the log `calls`.                                               *)
(*                                                                         *)
(* Floating-point options are held as integers in units of 1e-6:           *)
(* 0.05 is 50000 and 1e-5 is 10.  Python's None is the empty tuple         *)
(* and a value v that may be None is the 1-tuple <<v>>.                    *)
(***************************************************************************)
EXTENDS Integers, Sequences, FiniteSets, TLC

VARIABLES
    cmd,                  \* the command line as typed: an option not given is NONE
    args,                 \* the argparse namespace (lines 18-48)
    pc,                   \* the block of main() that runs next
    error,                \* the exception that ended the run, "" while none
    phenotype_df,         \* [columns: sample ids, index: phenotype ids]
    covariates_df,        \* NONE or <<sample ids of the rows>>
    paired_covariate_df,  \* NONE or <<[index, columns]>>
    interaction_df,       \* NONE or <<[index: sample ids, ncols, squeezed]>>
    maf_threshold,        \* NONE until line 107, then <<value>>
    group_s,              \* NONE or <<group file as a function phenotype -> group>>
    variant_df,           \* NONE or <<"chrom_pos">>
    pairs_df,             \* NONE or <<[filtered: number of filter_cis passes]>>
    chroms,               \* chromosomes left to map in the --load_split loop
    calls                 \* log of reads, loads, mapping calls and writes

vars == <<cmd, args, pc, error, phenotype_df, covariates_df, paired_covariate_df,
          interaction_df, maf_threshold, group_s, variant_df, pairs_df, chroms, calls>>

----------------------------------------------------------------------------
(* Values *)

NONE == <<>>
Some(v) == <<v>>
Val(o) == o[1]

Modes == {"cis", "cis_nominal", "cis_independent", "cis_susie", "trans"}
CisModes == {"cis", "cis_nominal", "cis_independent", "cis_susie"}

\* Bounds of the model
MaxSamples == 2
MaxPhenotypes == 3
MaxChroms == 2

\* Program constants, floats in units of 1e-6
DefaultPermutations == 10000
DefaultL == 10
DefaultWindow == 1000000
DefaultMafThreshold == 0
TransMafThreshold == 50000
CisMafThreshold == 0
SparsePvalThreshold == 10
CisExclusionWindow == 5000000

\* python's str.startswith('cis') on the five mode names of line 22
StartsWithCis(mode) == mode \in CisModes

\* a path is a tuple <<stem, extension>>; str.endswith('.parquet')
EndsWithParquet(path) == path[Len(path)] = "parquet"

Range(s) == {s[i] : i \in 1..Len(s)}
Identity(n) == [i \in 1..n |-> i]
Reverse(s) == [i \in 1..Len(s) |-> s[Len(s) + 1 - i]]

----------------------------------------------------------------------------
(* argparse: lines 18-48 *)

ParseArgs(c) ==
    [mode             |-> c.mode,
     covariates       |-> c.covariates,
     paired_covariate |-> c.paired_covariate,
     permutations     |-> IF c.permutations = NONE THEN DefaultPermutations ELSE Val(c.permutations),
     interaction      |-> c.interaction,
     cis_output       |-> c.cis_output,
     phenotype_groups |-> c.phenotype_groups,
     window           |-> IF c.window = NONE THEN DefaultWindow ELSE Val(c.window),
     pval_threshold   |-> c.pval_threshold,
     maf_threshold    |-> IF c.maf_threshold = NONE THEN Some(DefaultMafThreshold) ELSE c.maf_threshold,
     return_dense     |-> c.return_dense,
     output_text      |-> c.output_text,
     invnorm          |-> c.invnorm,
     load_split       |-> c.load_split,
     seed             |-> c.seed]

----------------------------------------------------------------------------
(* Helpers *)

Log(op, a) == calls' = Append(calls, [op |-> op, a |-> a])
NoArgs == [none |-> TRUE]

Abort(exc) == pc' = "aborted" /\ error' = exc
Goto(l) == pc' = l /\ error' = error

----------------------------------------------------------------------------
(* The inputs a run may meet.  `kind` names the family the files are drawn *)
(* from: "base" (a few shapes of each file), "samples" (every order and    *)
(* selection of sample ids) or "groups" (every phenotype-group file).      *)

\* phenotype_df of read_phenotype_bed: samples 1..MaxSamples in matrix order,
\* phenotypes 1..n in matrix order
PhenotypeInputs(kind) ==
    IF kind = "groups"
    THEN {[columns |-> Identity(MaxSamples), index |-> Identity(n)] : n \in 1..MaxPhenotypes}
    ELSE {[columns |-> Identity(MaxSamples), index |-> Identity(MaxPhenotypes)]}

\* the sample ids of a covariate, paired-covariate or interaction file, in file
\* order; MaxSamples + 1 is a sample the phenotype matrix does not have
SampleFiles(kind, columns) ==
    IF kind = "samples"
    THEN UNION {[1..k -> 1..(MaxSamples + 1)] : k \in 1..(MaxSamples + 1)}
    ELSE {columns, Reverse(columns)}

\* the phenotype ids of a paired-covariate file; 0 is no phenotype of the matrix
PairedIndexes(index) == {index, SubSeq(index, 1, 1), <<0>>}

\* the second column of the group file as written; "" is an empty field
GroupFields == {"", "gA", "gB", "gC"}

\* the group file: phenotype id -> field.  Its rows cover the phenotypes of the
\* matrix, with or without a row for phenotype 0 (not in the matrix), or lack
\* the row of the last phenotype
GroupFiles(kind, index) ==
    LET ids == Range(index) IN
    IF kind = "groups"
    THEN UNION {[dom -> GroupFields] : dom \in {ids, ids \cup {0}, ids \ {index[Len(index)]}}}
    ELSE {[p \in ids |-> "gA"],
          [p \in ids |-> IF p = index[1] THEN "gA" ELSE "gB"],
          [p \in ids |-> IF p = index[Len(index)] THEN "gB" ELSE "gA"]}

----------------------------------------------------------------------------
(* pandas *)

\* the missing value read_csv makes of an empty field
NaN == "NaN"
ReadCsvField(f) == IF f = "" THEN NaN ELSE f

\* python's a != b: NaN differs from everything, itself included
NotEqual(a, b) == a = NaN \/ b = NaN \/ a /= b

\* Index.equals
IndexEquals(a, b) == a = b

\* Index.isin(other).all()
AllIsIn(a, b) == Range(a) \subseteq Range(b)

\* the row labels of df.loc[labels] for a frame whose row labels are fileIndex:
\* for each label in turn, every row that carries it
RECURSIVE Loc(_, _)
Loc(fileIndex, labels) ==
    IF labels = <<>> THEN <<>>
    ELSE SelectSeq(fileIndex, LAMBDA l : l = Head(labels)) \o Loc(fileIndex, Tail(labels))

\* Series.unique() of the group file: NaN counts once
Unique(file) == {ReadCsvField(file[p]) : p \in DOMAIN file}

----------------------------------------------------------------------------
(* lines 50-56: check inputs.  os.path.exists(args.cis_output) is the input *)
(* `exists`.  The logger set up in lines 58-66 changes nothing below.       *)

CheckInputs ==
    /\ pc = "check_inputs"
    /\ \E exists \in BOOLEAN :
        IF args.mode = "cis_independent" /\ (args.cis_output = NONE \/ ~exists)
        THEN Abort("ValueError")
        ELSE IF args.interaction /= NONE /\ args.mode \notin {"cis_nominal", "trans"}
        THEN Abort("ValueError")
        ELSE IF args.interaction /= NONE /\ args.invnorm
        THEN Abort("NotImplementedError")
        ELSE Goto("read_phenotypes")
    /\ UNCHANGED <<cmd, args, phenotype_df, covariates_df, paired_covariate_df,
                   interaction_df, maf_threshold, group_s, variant_df, pairs_df, chroms, calls>>

(* lines 68-74: read_phenotype_bed; tss is whether the BED file defines start+1 == end *)
ReadPhenotypes(kind) ==
    /\ pc = "read_phenotypes"
    /\ \E ph \in PhenotypeInputs(kind), tss \in BOOLEAN :
        /\ Log("read_phenotype_bed", NoArgs)
        /\ phenotype_df' = ph
        /\ IF tss THEN Goto("read_covariates") ELSE Abort("AssertionError")
    /\ UNCHANGED <<cmd, args, covariates_df, paired_covariate_df,
                   interaction_df, maf_threshold, group_s, variant_df, pairs_df, chroms>>

(* lines 76-81 *)
ReadCovariates(kind) ==
    /\ pc = "read_covariates"
    /\ IF args.covariates /= NONE
       THEN \E file \in SampleFiles(kind, phenotype_df.columns) :
             /\ Log("read_csv", [file |-> "covariates", index |-> file])
             /\ covariates_df' = Some(file)
             /\ IF IndexEquals(phenotype_df.columns, file)
                THEN Goto("read_paired_covariate")
                ELSE Abort("AssertionError")
       ELSE /\ covariates_df' = NONE
            /\ Goto("read_paired_covariate")
            /\ UNCHANGED calls
    /\ UNCHANGED <<cmd, args, phenotype_df, paired_covariate_df,
                   interaction_df, maf_threshold, group_s, variant_df, pairs_df, chroms>>

(* lines 83-89 *)
ReadPairedCovariate(kind) ==
    /\ pc = "read_paired_covariate"
    /\ IF args.paired_covariate /= NONE
       THEN IF covariates_df = NONE
            THEN /\ Abort("AssertionError")
                 /\ UNCHANGED <<paired_covariate_df, calls>>
            ELSE \E ix \in PairedIndexes(phenotype_df.index),
                    cols \in SampleFiles(kind, phenotype_df.columns) :
                  /\ Log("read_csv", [file |-> "paired_covariate", index |-> cols])
                  /\ paired_covariate_df' = Some([index |-> ix, columns |-> cols])
                  /\ IF AllIsIn(ix, phenotype_df.index) /\ IndexEquals(cols, phenotype_df.columns)
                     THEN Goto("read_interaction")
                     ELSE Abort("AssertionError")
       ELSE /\ paired_covariate_df' = NONE
            /\ Goto("read_interaction")
            /\ UNCHANGED calls
    /\ UNCHANGED <<cmd, args, phenotype_df, covariates_df,
                   interaction_df, maf_threshold, group_s, variant_df, pairs_df, chroms>>

\* the reindexing of line 103 left out: the rows as the file has them
SelectSamplesAsRead(file, index) == file

\* line 103: the interaction rows selected by the covariate samples
SelectSamples(file, index) == Loc(file, index)

(* lines 91-105: ncols is the number of interaction terms in the file *)
ReadInteraction(kind) ==
    /\ pc = "read_interaction"
    /\ IF args.interaction /= NONE
       THEN \E file \in SampleFiles(kind, phenotype_df.columns), ncols \in {1, 2} :
             /\ Log("read_csv", [file |-> "interaction", index |-> file])
             /\ IF covariates_df = NONE
                THEN Abort("AttributeError") /\ UNCHANGED interaction_df
                ELSE IF ~AllIsIn(Val(covariates_df), file)
                THEN Abort("AssertionError") /\ UNCHANGED interaction_df
                ELSE /\ interaction_df' = Some([index |-> SelectSamples(file, Val(covariates_df)),
                                                ncols |-> ncols, squeezed |-> FALSE])
                     /\ Goto("set_maf_threshold")
       ELSE /\ interaction_df' = NONE
            /\ Goto("set_maf_threshold")
            /\ UNCHANGED calls
    /\ UNCHANGED <<cmd, args, phenotype_df, covariates_df, paired_covariate_df,
                   maf_threshold, group_s, variant_df, pairs_df, chroms>>

\* lines 107-113
MafThreshold(a) ==
    IF a.maf_threshold = NONE
    THEN IF a.mode = "trans" THEN TransMafThreshold ELSE CisMafThreshold
    ELSE Val(a.maf_threshold)

SetMafThreshold ==
    /\ pc = "set_maf_threshold"
    /\ maf_threshold' = Some(MafThreshold(args))
    /\ Goto("check_groups")
    /\ UNCHANGED <<cmd, args, phenotype_df, covariates_df, paired_covariate_df,
                   interaction_df, group_s, variant_df, pairs_df, chroms, calls>>

----------------------------------------------------------------------------
(* lines 115-128: the phenotype groups and the check of their sort order *)

\* lines 119-124: the loop over phenotype_df.index, from position i on, with
\* previous_group = prev and parsed_groups = n.  group_dict[i] of a phenotype
\* the file lacks raises KeyError, here the result -1
RECURSIVE ParsedGroups(_, _, _, _, _)
ParsedGroups(index, group_dict, i, prev, n) ==
    IF i > Len(index) THEN n
    ELSE IF index[i] \notin DOMAIN group_dict THEN -1
    ELSE IF NotEqual(group_dict[index[i]], prev)
         THEN ParsedGroups(index, group_dict, i + 1, group_dict[index[i]], n + 1)
         ELSE ParsedGroups(index, group_dict, i + 1, prev, n)

\* line 118: group_s.to_dict() of the file as read_csv read it
GroupDict(file) == [p \in DOMAIN file |-> ReadCsvField(file[p])]

\* lines 119-126: "" when the check passes, else the exception
GroupCheck(index, file) ==
    LET n == ParsedGroups(index, GroupDict(file), 1, "", 0) IN
    IF n = -1 THEN "KeyError"
    ELSE IF n /= Cardinality(Unique(file)) THEN "ValueError"
    ELSE ""

CheckPhenotypeGroups(kind) ==
    /\ pc = "check_groups"
    /\ IF args.phenotype_groups /= NONE
       THEN \E file \in GroupFiles(kind, phenotype_df.index) :
             /\ Log("read_csv", [file |-> "phenotype_groups", index |-> <<>>])
             /\ group_s' = Some(file)
             /\ IF GroupCheck(phenotype_df.index, file) = ""
                THEN Goto("load_genotypes")
                ELSE Abort(GroupCheck(phenotype_df.index, file))
       ELSE /\ group_s' = NONE
            /\ Goto("load_genotypes")
            /\ UNCHANGED calls
    /\ UNCHANGED <<cmd, args, phenotype_df, covariates_df, paired_covariate_df,
                   interaction_df, maf_threshold, variant_df, pairs_df, chroms>>

----------------------------------------------------------------------------
(* lines 130-135: load genotypes.  positions is whether the genotype input *)
(* carries a variant position table (load_genotypes returns variant_df     *)
(* None when it does not).                                                 *)

\* the block main() enters at line 137 for a mode
ModeBlock(a) ==
    CASE a.mode = "cis" -> "map_cis"
      [] a.mode = "cis_nominal" -> IF a.load_split THEN "plink_reader" ELSE "map_nominal"
      [] a.mode = "cis_independent" -> "map_independent"
      [] a.mode = "cis_susie" -> "map_susie"
      [] a.mode = "trans" -> "trans_setup"

\* line 131
LoadsAllGenotypes(a) == ~a.load_split \/ a.mode /= "cis_nominal"

\* the mode compared with 'cis' instead of tested for the prefix
PositionsAcceptedExact(mode, vdf) == ~(vdf = NONE /\ mode = "cis")

\* lines 134-135: whether the position check lets the run go on
PositionsAccepted(mode, vdf) == ~(vdf = NONE /\ StartsWithCis(mode))

LoadGenotypes ==
    /\ pc = "load_genotypes"
    /\ IF LoadsAllGenotypes(args)
       THEN \E positions \in BOOLEAN :
             LET vdf == IF positions THEN Some("chrom_pos") ELSE NONE IN
             /\ Log("genotypeio.load_genotypes", [select_samples |-> phenotype_df.columns,
                                                 positions |-> positions])
             /\ variant_df' = vdf
             /\ IF PositionsAccepted(args.mode, vdf)
                THEN Goto(ModeBlock(args))
                ELSE Abort("AssertionError")
       ELSE /\ Goto(ModeBlock(args))
            /\ UNCHANGED <<variant_df, calls>>
    /\ UNCHANGED <<cmd, args, phenotype_df, covariates_df, paired_covariate_df,
                   interaction_df, maf_threshold, group_s, pairs_df, chroms>>

----------------------------------------------------------------------------
(* lines 137-204: the cis modes *)

Entry(op, a) == [op |-> op, a |-> a]

\* the seed left out of the call
SeedArgDropped(a) == NONE

\* the seed main() hands to a permutation routine
SeedArg(a) == a.seed

\* lines 139-142
MapCisCall ==
    Entry("cis.map_cis",
          [variant_df |-> variant_df, covariates_df |-> covariates_df, group_s |-> group_s,
           paired_covariate_df |-> paired_covariate_df, interaction_df |-> NONE,
           nperm |-> args.permutations, window |-> args.window,
           maf_threshold |-> Val(maf_threshold), seed |-> SeedArg(args),
           inverse_normal_transform |-> args.invnorm])

(* lines 138-147; has_rpy2 is whether rpy2 could be imported *)
MapCis ==
    /\ pc = "map_cis"
    /\ \E has_rpy2 \in BOOLEAN :
        calls' = calls \o <<MapCisCall>>
                       \o (IF has_rpy2 THEN <<Entry("calculate_qvalues", NoArgs)>> ELSE <<>>)
                       \o <<Entry("to_csv", [file |-> "cis_qtl.txt.gz"])>>
    /\ Goto("finish")
    /\ UNCHANGED <<cmd, args, phenotype_df, covariates_df, paired_covariate_df,
                   interaction_df, maf_threshold, group_s, variant_df, pairs_df, chroms>>

\* lines 150-153 and 169-174: group_s is not passed on
MapNominalCall(chrom) ==
    Entry("cis.map_nominal",
          [variant_df |-> variant_df, covariates_df |-> covariates_df, group_s |-> NONE,
           paired_covariate_df |-> NONE, interaction_df |-> interaction_df,
           chrom |-> chrom, window |-> args.window,
           maf_threshold |-> Val(maf_threshold),
           inverse_normal_transform |-> args.invnorm])

(* lines 149-159; exists is whether the file args.cis_output names exists *)
MapNominal ==
    /\ pc = "map_nominal"
    /\ IF args.cis_output /= NONE
       THEN \E exists \in BOOLEAN :
             IF exists
             THEN /\ calls' = calls \o <<MapNominalCall(0),
                                         Entry("read_csv", [file |-> "cis_output"]),
                                         Entry("get_significant_pairs", [group_s |-> group_s]),
                                         Entry("to_parquet", [file |-> "cis_qtl.signif_pairs.parquet"])>>
                  /\ Goto("finish")
             ELSE /\ calls' = calls \o <<MapNominalCall(0)>>
                  /\ Abort("FileNotFoundError")
       ELSE /\ calls' = calls \o <<MapNominalCall(0)>>
            /\ Goto("finish")
    /\ UNCHANGED <<cmd, args, phenotype_df, covariates_df, paired_covariate_df,
                   interaction_df, maf_threshold, group_s, variant_df, pairs_df, chroms>>

(* lines 161-164: PlinkReader reads the PLINK bim table, which is the       *)
(* position table: line 168 takes variant_df from pr.bim, so a genotype     *)
(* input without one ends the run here.  nchr is the number of chromosomes. *)
PlinkReader ==
    /\ pc = "plink_reader"
    /\ \E positions \in BOOLEAN, nchr \in 1..MaxChroms :
        /\ Log("genotypeio.PlinkReader", [select_samples |-> phenotype_df.columns,
                                           positions |-> positions])
        /\ IF positions
           THEN /\ chroms' = Identity(nchr)
                /\ Goto("map_nominal_chrom")
           ELSE /\ Abort("FileNotFoundError")
                /\ UNCHANGED chroms
    /\ UNCHANGED <<cmd, args, phenotype_df, covariates_df, paired_covariate_df,
                   interaction_df, maf_threshold, group_s, variant_df, pairs_df>>

(* lines 165-175: one pass of the loop over pr.chrs *)
MapNominalChrom ==
    /\ pc = "map_nominal_chrom"
    /\ chroms /= <<>>
    /\ variant_df' = Some("chrom_pos")
    /\ calls' = Append(calls, [MapNominalCall(Head(chroms)) EXCEPT !.a.variant_df = Some("chrom_pos")])
    /\ chroms' = Tail(chroms)
    /\ Goto("map_nominal_chrom")
    /\ UNCHANGED <<cmd, args, phenotype_df, covariates_df, paired_covariate_df,
                   interaction_df, maf_threshold, group_s, pairs_df>>

(* lines 176-179: after the loop *)
WriteTopAssoc ==
    /\ pc = "map_nominal_chrom"
    /\ chroms = <<>>
    /\ IF interaction_df /= NONE
       THEN Log("to_csv", [file |-> "cis_qtl_top_assoc.txt.gz"])
       ELSE UNCHANGED calls
    /\ Goto("finish")
    /\ UNCHANGED <<cmd, args, phenotype_df, covariates_df, paired_covariate_df,
                   interaction_df, maf_threshold, group_s, variant_df, pairs_df, chroms>>

\* lines 184-186
MapIndependentCall ==
    Entry("cis.map_independent",
          [variant_df |-> variant_df, covariates_df |-> covariates_df, group_s |-> group_s,
           paired_covariate_df |-> NONE, interaction_df |-> NONE,
           nperm |-> args.permutations, window |-> args.window,
           maf_threshold |-> Val(maf_threshold), seed |-> SeedArg(args),
           inverse_normal_transform |-> args.invnorm])

(* lines 181-189: the file exists, line 51 has checked it *)
MapIndependent ==
    /\ pc = "map_independent"
    /\ calls' = calls \o <<Entry("read_csv", [file |-> "cis_output"]),
                           MapIndependentCall,
                           Entry("to_csv", [file |-> "cis_independent_qtl.txt.gz"])>>
    /\ Goto("finish")
    /\ UNCHANGED <<cmd, args, phenotype_df, covariates_df, paired_covariate_df,
                   interaction_df, maf_threshold, group_s, variant_df, pairs_df, chroms>>

\* lines 199-201
SusieCall ==
    Entry("susie.map",
          [variant_df |-> variant_df, covariates_df |-> covariates_df, group_s |-> NONE,
           paired_covariate_df |-> paired_covariate_df, interaction_df |-> NONE,
           L |-> DefaultL, window |-> args.window,
           maf_threshold |-> Val(maf_threshold),
           inverse_normal_transform |-> args.invnorm])

(* lines 191-204; exists is whether the file args.cis_output names exists *)
MapSusie ==
    /\ pc = "map_susie"
    /\ IF args.cis_output = NONE
       THEN Abort("AttributeError") /\ UNCHANGED calls
       ELSE \E exists \in BOOLEAN :
             IF ~exists
             THEN Abort("FileNotFoundError") /\ UNCHANGED calls
             ELSE /\ calls' = calls \o
                        <<Entry(IF EndsWithParquet(args.cis_output) THEN "read_parquet" ELSE "read_csv",
                                [file |-> "cis_output"]),
                          SusieCall,
                          Entry("to_parquet", [file |-> "SuSiE_summary.parquet"]),
                          Entry("pickle.dump", [file |-> "SuSiE.pickle"])>>
                  /\ Goto("finish")
    /\ UNCHANGED <<cmd, args, phenotype_df, covariates_df, paired_covariate_df,
                   interaction_df, maf_threshold, group_s, variant_df, pairs_df, chroms>>

----------------------------------------------------------------------------
(* lines 206-244: mode trans *)

\* line 207
ReturnSparse(a) == ~a.return_dense

\* the default threshold set without looking at return_sparse
PvalThresholdAlways(a) ==
    IF a.pval_threshold = NONE THEN Some(SparsePvalThreshold) ELSE a.pval_threshold

\* lines 208-210
PvalThreshold(a) ==
    IF a.pval_threshold = NONE /\ ReturnSparse(a)
    THEN Some(SparsePvalThreshold)
    ELSE a.pval_threshold

(* lines 213-217 *)
TransSetup ==
    /\ pc = "trans_setup"
    /\ IF interaction_df /= NONE
       THEN IF Val(interaction_df).ncols > 1
            THEN Abort("NotImplementedError") /\ UNCHANGED interaction_df
            ELSE /\ interaction_df' = Some([Val(interaction_df) EXCEPT !.squeezed = TRUE])
                 /\ Goto("map_trans")
       ELSE Goto("map_trans") /\ UNCHANGED interaction_df
    /\ UNCHANGED <<cmd, args, phenotype_df, covariates_df, paired_covariate_df,
                   maf_threshold, group_s, variant_df, pairs_df, chroms, calls>>

\* lines 219-222
MapTransCall ==
    Entry("trans.map_trans",
          [covariates_df |-> covariates_df, interaction_df |-> interaction_df,
           return_sparse |-> ReturnSparse(args), pval_threshold |-> PvalThreshold(args),
           maf_threshold |-> Val(maf_threshold),
           inverse_normal_transform |-> args.invnorm])

MapTrans ==
    /\ pc = "map_trans"
    /\ calls' = Append(calls, MapTransCall)
    /\ pairs_df' = Some([filtered |-> 0])
    /\ Goto("filter_cis")
    /\ UNCHANGED <<cmd, args, phenotype_df, covariates_df, paired_covariate_df,
                   interaction_df, maf_threshold, group_s, variant_df, chroms>>

\* the cis window of --window used for the exclusion
FilterWindowArg(a) == a.window

\* line 226: the window of the cis exclusion
FilterWindow(a) == CisExclusionWindow

(* lines 224-226 *)
FilterCis ==
    /\ pc = "filter_cis"
    /\ IF variant_df /= NONE
       THEN /\ Log("trans.filter_cis", [window |-> FilterWindow(args), pairs_df |-> pairs_df])
            /\ pairs_df' = Some([filtered |-> Val(pairs_df).filtered + 1])
       ELSE UNCHANGED <<calls, pairs_df>>
    /\ Goto("map_permutations")
    /\ UNCHANGED <<cmd, args, phenotype_df, covariates_df, paired_covariate_df,
                   interaction_df, maf_threshold, group_s, variant_df, chroms>>

\* lines 230-232
MapPermutationsCall ==
    Entry("trans.map_permutations",
          [covariates_df |-> covariates_df, nperms |-> args.permutations,
           maf_threshold |-> Val(maf_threshold), seed |-> SeedArg(args),
           inverse_normal_transform |-> args.invnorm])

(* lines 228-237 *)
MapPermutations ==
    /\ pc = "map_permutations"
    /\ IF args.permutations > 0
       THEN calls' = calls \o <<MapPermutationsCall,
                                Entry("to_csv", [file |-> "permutations.txt.gz"]),
                                Entry("pickle.dump", [file |-> "permutations.pickle"])>>
       ELSE UNCHANGED calls
    /\ Goto("write_pairs")
    /\ UNCHANGED <<cmd, args, phenotype_df, covariates_df, paired_covariate_df,
                   interaction_df, maf_threshold, group_s, variant_df, pairs_df, chroms>>

(* lines 239-244 *)
WritePairs ==
    /\ pc = "write_pairs"
    /\ IF ~args.output_text
       THEN Log("to_parquet", [file |-> "trans_qtl_pairs.parquet", pairs_df |-> pairs_df])
       ELSE Log("to_csv", [file |-> "trans_qtl_pairs.txt.gz", pairs_df |-> pairs_df])
    /\ Goto("finish")
    /\ UNCHANGED <<cmd, args, phenotype_df, covariates_df, paired_covariate_df,
                   interaction_df, maf_threshold, group_s, variant_df, pairs_df, chroms>>

(* line 246 *)
Finish ==
    /\ pc = "finish"
    /\ Goto("done")
    /\ UNCHANGED <<cmd, args, phenotype_df, covariates_df, paired_covariate_df,
                   interaction_df, maf_threshold, group_s, variant_df, pairs_df, chroms, calls>>

----------------------------------------------------------------------------
(* Command lines *)

CovariatesPath == <<"covariates", "txt">>
PairedCovariatePath == <<"paired_covariate", "txt">>
InteractionPath == <<"interaction", "txt">>
GroupsPath == <<"phenotype_groups", "txt">>
CisOutputPaths == {<<"cis_qtl", "txt.gz">>, <<"cis_qtl.signif_pairs", "parquet">>}

\* the values given to the numeric options
WindowValues == {200000}
PvalValues == {1000}
MafValues == {10000}
PermutationValues == {0}
SeedValues == {1, 2}

Opt(S) == {NONE} \cup {Some(v) : v \in S}

\* every command line: options a mode never reads keep their defaults
CmdLines ==
    {c \in [mode             : Modes,
            covariates       : {NONE, CovariatesPath},
            paired_covariate : {NONE, PairedCovariatePath},
            interaction      : {NONE, InteractionPath},
            cis_output       : {NONE} \cup CisOutputPaths,
            phenotype_groups : {NONE, GroupsPath},
            window           : Opt(WindowValues),
            pval_threshold   : Opt(PvalValues),
            maf_threshold    : Opt(MafValues),
            permutations     : Opt(PermutationValues),
            seed             : Opt(SeedValues),
            return_dense     : BOOLEAN,
            output_text      : BOOLEAN,
            invnorm          : BOOLEAN,
            load_split       : BOOLEAN] :
        /\ c.mode /= "trans" =>
             c.pval_threshold = NONE /\ ~c.return_dense /\ ~c.output_text
        /\ c.mode \in {"cis", "trans"} => c.cis_output = NONE}

\* a few command lines of every mode, for the runs that vary the files
FewCmdLines ==
    {c \in CmdLines :
        /\ c.window = NONE /\ c.maf_threshold = NONE /\ c.seed = NONE
        /\ c.pval_threshold = NONE /\ ~c.return_dense /\ ~c.output_text
        /\ ~c.invnorm /\ c.permutations = NONE
        /\ c.cis_output \in {NONE, <<"cis_qtl", "txt.gz">>}}

----------------------------------------------------------------------------
(* Specifications *)

InitWith(cmds) ==
    /\ cmd \in cmds
    /\ args = ParseArgs(cmd)
    /\ pc = "check_inputs"
    /\ error = ""
    /\ phenotype_df = [columns |-> <<>>, index |-> <<>>]
    /\ covariates_df = NONE
    /\ paired_covariate_df = NONE
    /\ interaction_df = NONE
    /\ maf_threshold = NONE
    /\ group_s = NONE
    /\ variant_df = NONE
    /\ pairs_df = NONE
    /\ chroms = <<>>
    /\ calls = <<>>

NextOver(kind) ==
    \/ CheckInputs
    \/ ReadPhenotypes(kind)
    \/ ReadCovariates(kind)
    \/ ReadPairedCovariate(kind)
    \/ ReadInteraction(kind)
    \/ SetMafThreshold
    \/ CheckPhenotypeGroups(kind)
    \/ LoadGenotypes
    \/ MapCis
    \/ MapNominal
    \/ PlinkReader
    \/ MapNominalChrom
    \/ WriteTopAssoc
    \/ MapIndependent
    \/ MapSusie
    \/ TransSetup
    \/ MapTrans
    \/ FilterCis
    \/ MapPermutations
    \/ WritePairs
    \/ Finish

\* every command line, a few shapes of each input file
Init == InitWith(CmdLines)
Next == NextOver("base")
Spec == Init /\ [][Next]_vars

\* a few command lines, every order and selection of samples in the input files
InitSamples == InitWith({c \in FewCmdLines : c.phenotype_groups = NONE})
NextSamples == NextOver("samples")
SpecSamples == InitSamples /\ [][NextSamples]_vars

\* a few command lines, every phenotype-group file
InitGroups == InitWith({c \in FewCmdLines : c.phenotype_groups /= NONE => c.paired_covariate = NONE})
NextGroups == NextOver("groups")
SpecGroups == InitGroups /\ [][NextGroups]_vars

----------------------------------------------------------------------------
(* What a run has done so far, read off the log *)

CisMappingOps == {"cis.map_cis", "cis.map_nominal", "cis.map_independent", "susie.map"}
MappingOps == CisMappingOps \cup {"trans.map_trans", "trans.map_permutations"}
PermutationOps == {"cis.map_cis", "cis.map_independent", "trans.map_permutations"}
GenotypeOps == {"genotypeio.load_genotypes", "genotypeio.PlinkReader"}

Indexes(ops) == {i \in 1..Len(calls) : calls[i].op \in ops}
Invoked(ops) == Indexes(ops) /= {}
ReadsOf(file) == {i \in Indexes({"read_csv"}) : calls[i].a.file = file}

\* the run ended in the block that read `file`
AbortedReading(file) ==
    pc = "aborted" /\ Len(calls) > 0 /\ Len(calls) \in ReadsOf(file)

\* the genotype input of the run turned out to carry no variant positions
NoPositions == \E i \in Indexes(GenotypeOps) : ~calls[i].a.positions

----------------------------------------------------------------------------
(* Phenotype groups: C1, C10 (under SpecGroups) *)

\* the file has a row for every phenotype of the matrix
Covers(index, file) == Range(index) \subseteq DOMAIN file

\* some group id, as written in the file, occurs in two runs of the phenotype
\* order separated by a phenotype of another group
Discontiguous(index, file) ==
    \E i, j, k \in 1..Len(index) :
        /\ i < j /\ j < k
        /\ file[index[i]] = file[index[k]]
        /\ file[index[j]] /= file[index[i]]

\* C1: a grouping that is discontiguous in phenotype order ends the run with
\* the ValueError of the group check, before genotypes are loaded and before
\* any mapping routine is invoked, whatever else the group file lists.
C1_DiscontiguousGroupsAbort ==
    (/\ group_s /= NONE
     /\ Covers(phenotype_df.index, Val(group_s))
     /\ Discontiguous(phenotype_df.index, Val(group_s)))
    => /\ pc = "aborted" /\ error = "ValueError"
       /\ ~Invoked(GenotypeOps \cup MappingOps)

\* C10: a grouping that is contiguous in phenotype order passes the group
\* check, whatever the group ids and whatever else the group file lists, and
\* group_s reaches the mapping routine.
C10_ContiguousGroupsAccepted ==
    (/\ group_s /= NONE
     /\ Covers(phenotype_df.index, Val(group_s))
     /\ ~Discontiguous(phenotype_df.index, Val(group_s)))
    => /\ ~AbortedReading("phenotype_groups")
       /\ \A i \in Indexes({"cis.map_cis", "cis.map_independent"}) :
             calls[i].a.group_s = group_s

----------------------------------------------------------------------------
(* Defaults and companion files: C2, C4, C7 (under Spec) *)

\* C2: without --maf_threshold the mapping routines get maf_threshold 0.05 in
\* mode trans and 0 in the cis modes; a value the user gives is passed unchanged.
C2_MafThresholdDefaults ==
    \A i \in Indexes(MappingOps) :
        calls[i].a.maf_threshold =
            IF cmd.maf_threshold /= NONE THEN Val(cmd.maf_threshold)
            ELSE IF cmd.mode = "trans" THEN TransMafThreshold
            ELSE CisMafThreshold

\* C4: in the modes that need --cis_output (cis_independent, cis_susie) a run
\* without the file ends in an input-validation error before any input file
\* is read, before genotypes are loaded and before any mapping routine runs.
C4_MissingCisOutputAbortsEarly ==
    cmd.mode \in {"cis_independent", "cis_susie"}
    => /\ cmd.cis_output = NONE
            => \/ pc = "check_inputs"
               \/ pc = "aborted" /\ error = "ValueError" /\ calls = <<>>
       /\ error /= "FileNotFoundError"

\* C7: a run without --covariates (and without the paired covariate, which
\* needs them) does not fail while loading its inputs because covariates are
\* missing, and hands covariates_df = None to every mapping routine.
C7_CovariatesOptional ==
    (cmd.covariates = NONE /\ cmd.paired_covariate = NONE)
    => /\ ~AbortedReading("covariates")
       /\ ~AbortedReading("interaction")
       /\ \A i \in Indexes(MappingOps) : calls[i].a.covariates_df = NONE

----------------------------------------------------------------------------
(* Mode trans: C5, C9 (under Spec) *)

\* C5: trans.map_trans is called with return_sparse = true unless
\* --return_dense is given; its p-value threshold is the user's when given,
\* 1e-5 when not given and the output is sparse, none when not given and the
\* output is dense; a sparse scan never starts without a threshold.
C5_TransSparseDefault ==
    \A i \in Indexes({"trans.map_trans"}) :
        /\ calls[i].a.return_sparse = ~cmd.return_dense
        /\ calls[i].a.pval_threshold =
              IF cmd.pval_threshold /= NONE THEN cmd.pval_threshold
              ELSE IF cmd.return_dense THEN NONE
              ELSE Some(SparsePvalThreshold)
        /\ calls[i].a.return_sparse => calls[i].a.pval_threshold /= NONE

\* a scan without --pval_threshold and without --return_dense has run, sparse
\* and with the default threshold
C5_Witness ==
    /\ cmd.pval_threshold = NONE /\ ~cmd.return_dense
    /\ \E i \in Indexes({"trans.map_trans"}) :
          calls[i].a.return_sparse /\ calls[i].a.pval_threshold = Some(SparsePvalThreshold)
    /\ pc = "done"

PairsFiles == {"trans_qtl_pairs.parquet", "trans_qtl_pairs.txt.gz"}
PairsWrites ==
    {i \in Indexes({"to_parquet", "to_csv"}) : calls[i].a.file \in PairsFiles}

\* C9: in a trans run whose genotypes carry positions, trans.filter_cis runs
\* exactly once, after trans.map_trans and before the pairs table is written,
\* with a window of 5,000,000 whatever --window is; the table written is the
\* filtered one, in the format --output_text asks for, and with
\* --permutations > 0 it is written after trans.map_permutations.
C9_CisExclusionBeforeWrite ==
    (cmd.mode = "trans" /\ variant_df /= NONE)
    => /\ Cardinality(Indexes({"trans.filter_cis"})) <= 1
       /\ \A f \in Indexes({"trans.filter_cis"}) :
             /\ calls[f].a.window = CisExclusionWindow
             /\ calls[f].a.pairs_df = Some([filtered |-> 0])
             /\ \E m \in Indexes({"trans.map_trans"}) : m < f
       /\ \A w \in PairsWrites :
             /\ calls[w].a.pairs_df = Some([filtered |-> 1])
             /\ \E f \in Indexes({"trans.filter_cis"}) : f < w
             /\ args.permutations > 0
                   => \E q \in Indexes({"trans.map_permutations"}) : q < w
             /\ calls[w].a.file =
                   IF cmd.output_text THEN "trans_qtl_pairs.txt.gz" ELSE "trans_qtl_pairs.parquet"
       /\ pc = "done" => Cardinality(PairsWrites) = 1

\* a trans run with positions, its own --window, permutations and text output
\* has written its pairs
C9_Witness ==
    /\ cmd.mode = "trans" /\ variant_df /= NONE /\ pc = "done"
    /\ cmd.window /= NONE /\ args.window /= CisExclusionWindow
    /\ args.permutations > 0 /\ cmd.output_text
    /\ PairsWrites /= {}

----------------------------------------------------------------------------
(* Variant positions and the seed: C6, C8 (under Spec) *)

\* C6: in every mode whose name starts with 'cis', on either genotype-loading
\* path, a run whose genotypes carry no variant positions ends before any cis
\* mapping routine is invoked, and no cis mapping routine ever gets
\* variant_df = None; in mode trans such a run goes on past the loading and
\* only skips trans.filter_cis.
C6_PositionsRequiredForCis ==
    /\ \A i \in Indexes(CisMappingOps) : calls[i].a.variant_df /= NONE
    /\ (NoPositions /\ StartsWithCis(cmd.mode))
          => pc = "aborted" /\ ~Invoked(CisMappingOps)
    /\ (NoPositions /\ cmd.mode = "trans")
          => /\ error /= "AssertionError"
             /\ ~Invoked({"trans.filter_cis"})
             /\ pc = "done" => Invoked({"trans.map_trans"}) /\ PairsWrites /= {}

\* a cis run under --load_split was stopped for want of positions, by the
\* check of line 135
C6_Witness ==
    /\ NoPositions /\ StartsWithCis(cmd.mode) /\ cmd.load_split
    /\ pc = "aborted" /\ error = "AssertionError"

\* C8: every permutation-based routine the driver starts (cis.map_cis,
\* cis.map_independent, trans.map_permutations) gets the seed and the number
\* of permutations of the command line unchanged, so two runs of the same
\* command line on the same inputs hand the same seed to the same routines.
C8_SeedPassedUnchanged ==
    \A i \in Indexes(PermutationOps) :
        /\ calls[i].a.seed = cmd.seed
        /\ (calls[i].op = "trans.map_permutations"
              => calls[i].a.nperms = IF cmd.permutations = NONE THEN DefaultPermutations
                                     ELSE Val(cmd.permutations))
        /\ (calls[i].op /= "trans.map_permutations"
              => calls[i].a.nperm = IF cmd.permutations = NONE THEN DefaultPermutations
                                    ELSE Val(cmd.permutations))

\* a seeded trans run has run its permutations
C8_Witness ==
    /\ cmd.seed /= NONE
    /\ Invoked({"trans.map_permutations"})
    /\ pc = "done"

----------------------------------------------------------------------------
(* Sample order: C3 (under SpecSamples) *)

SampleReads == ReadsOf("covariates") \cup ReadsOf("paired_covariate") \cup ReadsOf("interaction")

\* the position of sample x in the phenotype matrix
PosIn(columns, x) == CHOOSE i \in 1..Len(columns) : columns[i] = x

\* ix lists all the samples of the phenotype matrix and no other, in the
\* order of the matrix
InMatrixOrder(ix, columns) ==
    /\ Range(ix) = Range(columns)
    /\ \A i, j \in 1..Len(ix) : i < j => PosIn(columns, ix[i]) <= PosIn(columns, ix[j])

NoRepeats(ix) == \A i, j \in 1..Len(ix) : ix[i] = ix[j] => i = j

====
